---- MODULE Spec2Model ----
(***************************************************************************)
(* Model of the prove / verify protocol of mopro-r0-ecdsa-app:             *)
(*   - risc0_prove and risc0_verify   (mopro-r0-example-app/src/lib.rs)    *)
(*   - prove_ecdsa_verification       (risc0-circuit/src/main.rs)          *)
(*   - the guest program main         (risc0-circuit/methods/guest)        *)
(*                                                                         *)
(* Byte strings are sequences of integers 0..255, a Rust String is the     *)
(* sequence of its Unicode scalar values.  The cryptography is symbolic:   *)
(* a signature names the private key and the message it was made for, a    *)
(* seal names the image id and the journal it was proved for and carries   *)
(* a soundness byte that only the proving backend sets to 1.  OsRng is an  *)
(* entropy source that never returns the same draw twice.                  *)
(***************************************************************************)
EXTENDS Integers, Sequences, FiniteSets, TLC

\* ------------------------------------------------------------------ bounds
\* The number of invocations in one behaviour.
MaxCalls == 2

\* --------------------------------------------------------------- constants
\* The image id of the guest program (imported from ecdsa_methods).
ECDSA_VERIFY_ID == 7

Calls == 1..MaxCalls

\* The messages risc0_prove is called with, as Unicode scalar values: the
\* empty string, and strings with one, two and three byte encodings.
Strings == {<<>>, <<65, 233>>, <<20320>>}

\* ------------------------------------------------------------------- UTF-8
\* An encoder that keeps only the low byte of a scalar value.
Utf8CharLossy(c) == <<c % 256>>

\* str::as_bytes of one scalar value.
Utf8Char(c) ==
    IF c < 128 THEN <<c>>
    ELSE IF c < 2048 THEN <<192 + (c \div 64), 128 + (c % 64)>>
    ELSE IF c < 65536
         THEN <<224 + (c \div 4096), 128 + ((c \div 64) % 64), 128 + (c % 64)>>
    ELSE <<240 + (c \div 262144), 128 + ((c \div 4096) % 64),
           128 + ((c \div 64) % 64), 128 + (c % 64)>>

RECURSIVE as_bytes(_)
as_bytes(s) == IF s = <<>> THEN <<>> ELSE Utf8Char(Head(s)) \o as_bytes(Tail(s))

IsCont(b) == b >= 128 /\ b <= 191

\* String::from_utf8: [ok, s]; rejects stray continuation bytes, truncated
\* and overlong sequences, surrogates and values above U+10FFFF.
RECURSIVE from_utf8(_)
from_utf8(b) ==
    IF b = <<>> THEN [ok |-> TRUE, s |-> <<>>]
    ELSE LET b1 == b[1]
             n == IF b1 < 128 THEN 1
                  ELSE IF b1 >= 194 /\ b1 <= 223 THEN 2
                  ELSE IF b1 >= 224 /\ b1 <= 239 THEN 3
                  ELSE IF b1 >= 240 /\ b1 <= 244 THEN 4
                  ELSE 0
         IN IF n = 0 \/ Len(b) < n THEN [ok |-> FALSE, s |-> <<>>]
            ELSE LET conts == \A i \in 2..n : IsCont(b[i])
                     c == IF n = 1 THEN b1
                          ELSE IF n = 2 THEN (b1 - 192) * 64 + (b[2] - 128)
                          ELSE IF n = 3
                               THEN (b1 - 224) * 4096 + (b[2] - 128) * 64 + (b[3] - 128)
                          ELSE (b1 - 240) * 262144 + (b[2] - 128) * 4096
                               + (b[3] - 128) * 64 + (b[4] - 128)
                     scalar == /\ (n = 3 => c >= 2048 /\ ~(c >= 55296 /\ c <= 57343))
                               /\ (n = 4 => c >= 65536 /\ c <= 1114111)
                     rest == from_utf8(SubSeq(b, n + 1, Len(b)))
                IN IF conts /\ scalar /\ rest.ok
                   THEN [ok |-> TRUE, s |-> <<c>> \o rest.s]
                   ELSE [ok |-> FALSE, s |-> <<>>]

\* ------------------------------------------------------------------- ECDSA
\* verifying_key.to_encoded_point(true) of the key pair with private key k:
\* the SEC1 compressed encoding, a parity tag (2 or 3) and the x coordinate.
PubOf(k) == <<2 + (k % 2), k>>

\* VerifyingKey::from_encoded_point succeeds on the encodings of curve points.
ValidPoint(p) == Len(p) = 2 /\ p[1] \in {2, 3} /\ p[1] = 2 + (p[2] % 2)

\* signing_key.sign(message): the signature of message under private key k
\* made with nonce n (risc0_prove signs deterministically, nonce 0).
Sign(k, message, n) == <<k, n>> \o message

\* verifying_key.verify(&message, &signature) in the guest.
SigVerify(pk, message, signature) ==
    /\ Len(signature) >= 2
    /\ PubOf(signature[1]) = pk
    /\ SubSeq(signature, 3, Len(signature)) = message

\* ------------------------------------------------------------ journal codec
\* The serialization of the committed pair (EncodedPoint, Vec<u8>).
JournalEncode(pk, message) == <<Len(pk)>> \o pk \o <<Len(message)>> \o message

\* receipt.journal.decode::<(EncodedPoint, Vec<u8>)>()
JournalDecode(j) ==
    LET bad == [ok |-> FALSE, pk |-> <<>>, message |-> <<>>]
    IN IF Len(j) < 1 THEN bad
       ELSE LET n == j[1]
            IN IF n < 0 \/ Len(j) < n + 2 THEN bad
               ELSE LET pk == SubSeq(j, 2, n + 1)
                        m == j[n + 2]
                    IN IF m < 0 \/ Len(j) # n + 2 + m \/ n # 2 THEN bad
                       ELSE IF pk[1] \notin {2, 3} THEN bad
                       ELSE [ok |-> TRUE, pk |-> pk,
                             message |-> SubSeq(j, n + 3, n + 2 + m)]

\* ------------------------------------------------------------ guest program
NoInput == [pk |-> <<>>, message |-> <<>>, signature |-> <<>>]

\* A guest that commits the signature along with the key and the message.
CommittedWithSignature(input) ==
    JournalEncode(input.pk, input.message) \o input.signature

\* What the guest hands to env::commit.
Committed(input) == JournalEncode(input.pk, input.message)

\* A guest that commits before it checks the signature.
GuestMainCommitFirst(input) ==
    IF ValidPoint(input.pk) /\ SigVerify(input.pk, input.message, input.signature)
    THEN [exit |-> "halted", commits |-> <<Committed(input)>>]
    ELSE [exit |-> "aborted", commits |-> <<Committed(input)>>]

\* One run of the guest's main on the input env::read() returns: the way the
\* run ends and the sequence of its env::commit calls.
GuestMain(input) ==
    IF ~ValidPoint(input.pk)
    THEN [exit |-> "aborted", commits |-> <<>>]
    ELSE IF ~SigVerify(input.pk, input.message, input.signature)
    THEN [exit |-> "aborted", commits |-> <<>>]
    ELSE [exit |-> "halted", commits |-> <<Committed(input)>>]

RECURSIVE Flatten(_)
Flatten(ss) == IF ss = <<>> THEN <<>> ELSE Head(ss) \o Flatten(Tail(ss))

\* ----------------------------------------------------------------- receipts
NoReceipt == [journal |-> <<>>, seal |-> <<>>]

\* The seal the backend makes for a run of the program image on journal j.
Seal(image, j) == <<image, 1>> \o j

\* prover.prove(env, ECDSA_VERIFY_ELF): runs the guest on the input of env;
\* an aborted guest or a fault of the backend yields Err, else the receipt.
ProverProve(input, fault) ==
    LET g == GuestMain(input)
    IN IF g.exit # "halted" \/ fault
       THEN [ok |-> FALSE, guest |-> g, receipt |-> NoReceipt]
       ELSE [ok |-> TRUE, guest |-> g,
             receipt |-> [journal |-> Flatten(g.commits),
                          seal |-> Seal(ECDSA_VERIFY_ID, Flatten(g.commits))]]

\* A check that accepts a seal of any program image.
ReceiptVerifyAnyImage(r, image_id) ==
    /\ Len(r.seal) >= 2
    /\ r.seal[2] = 1
    /\ SubSeq(r.seal, 3, Len(r.seal)) = r.journal

\* A check that does not compare the journal with the one the seal is for.
ReceiptVerifyNoJournal(r, image_id) ==
    /\ Len(r.seal) >= 2
    /\ r.seal[2] = 1
    /\ r.seal[1] = image_id

\* receipt.verify(image_id)
ReceiptVerify(r, image_id) ==
    /\ Len(r.seal) >= 2
    /\ r.seal[2] = 1
    /\ r.seal[1] = image_id
    /\ SubSeq(r.seal, 3, Len(r.seal)) = r.journal

\* bincode::serialize(&receipt)
bincode_serialize(r) == <<Len(r.journal)>> \o r.journal \o <<Len(r.seal)>> \o r.seal

\* bincode::deserialize::<Receipt>(&receipt_bytes)
bincode_deserialize(b) ==
    LET bad == [ok |-> FALSE, receipt |-> NoReceipt]
    IN IF Len(b) < 1 THEN bad
       ELSE LET n == b[1]
            IN IF n < 0 \/ Len(b) < n + 2 THEN bad
               ELSE LET m == b[n + 2]
                    IN IF m < 0 \/ Len(b) < n + 2 + m THEN bad
                       ELSE [ok |-> TRUE,
                             receipt |-> [journal |-> SubSeq(b, 2, n + 1),
                                          seal |-> SubSeq(b, n + 3, n + 2 + m)]]

\* -------------------------------------------------------------------- state
\* calls[c]: the c-th invocation of an operation, its position and locals.
\* osrng: the number of draws OsRng has handed out.
VARIABLES calls, osrng

vars == <<calls, osrng>>

NoGuest == [exit |-> "none", commits |-> <<>>]
NoResult == [kind |-> "none", receipt |-> <<>>, is_valid |-> FALSE,
             verified_message |-> <<>>]
NoDecoded == [pk |-> <<>>, message |-> <<>>]
NoOutcomes == [sign |-> TRUE, env |-> TRUE, fault |-> FALSE, serialize |-> TRUE]

NoCall == [op |-> "none", pc |-> "idle", message |-> <<>>, receipt_bytes |-> <<>>,
           signing_key |-> 0, signature |-> <<>>, input |-> NoInput,
           guest |-> NoGuest, receipt |-> NoReceipt, stages |-> <<>>,
           decoded |-> NoDecoded, outcomes |-> NoOutcomes, result |-> NoResult]

Err(kind) == [NoResult EXCEPT !.kind = kind]

\* Ok(Risc0ProofOutput { receipt })
OkProof(bytes) == [NoResult EXCEPT !.kind = "Ok", !.receipt = bytes]

\* Ok(Risc0VerifyOutput { is_valid: true, verified_message })
OkVerify(s) == [NoResult EXCEPT !.kind = "Ok", !.is_valid = TRUE,
                                !.verified_message = s]

Init == calls = [c \in Calls |-> NoCall] /\ osrng = 0

\* Calls are numbered in the order they are invoked.
CanStart(c) ==
    calls[c].op = "none" /\ (IF c = 1 THEN TRUE ELSE calls[c - 1].op # "none")

Set(c, r) == calls' = [calls EXCEPT ![c] = r]

\* ------------------------------------------------------------- risc0_prove
\* A key generator that always returns the same key.
SigningKeyFixed(rng) == 1

\* SigningKey::random(&mut OsRng): the key of the next draw.
SigningKeyRandom(rng) == rng + 1

Call_risc0_prove(c, message) ==
    /\ CanStart(c)
    /\ Set(c, [calls[c] EXCEPT !.op = "risc0_prove", !.pc = "keygen",
                               !.message = message])
    /\ UNCHANGED osrng

ProveKeygen(c) ==
    /\ calls[c].op = "risc0_prove" /\ calls[c].pc = "keygen"
    /\ Set(c, [calls[c] EXCEPT !.signing_key = SigningKeyRandom(osrng),
                               !.pc = "sign"])
    /\ osrng' = osrng + 1

\* signing_key.sign(message_bytes): Signer::sign panics when signing fails.
ProveSign(c) ==
    /\ calls[c].op = "risc0_prove" /\ calls[c].pc = "sign"
    /\ \E ok \in BOOLEAN :
         Set(c, IF ok
                THEN [calls[c] EXCEPT
                        !.signature = Sign(calls[c].signing_key,
                                           as_bytes(calls[c].message), 0),
                        !.pc = "env"]
                ELSE [calls[c] EXCEPT !.outcomes.sign = FALSE, !.pc = "done",
                                      !.result = Err("panic")])
    /\ UNCHANGED osrng

\* ExecutorEnv::builder().write(&input)?.build()?
ProveEnv(c) ==
    /\ calls[c].op = "risc0_prove" /\ calls[c].pc = "env"
    /\ \E ok \in BOOLEAN :
         Set(c, IF ok
                THEN [calls[c] EXCEPT
                        !.input = [pk |-> PubOf(calls[c].signing_key),
                                   message |-> as_bytes(calls[c].message),
                                   signature |-> calls[c].signature],
                        !.pc = "prove"]
                ELSE [calls[c] EXCEPT !.outcomes.env = FALSE, !.pc = "done",
                                      !.result = Err("ProveError")])
    /\ UNCHANGED osrng

\* An executor environment kept in one buffer that every invocation shares.
EnvInputShared(cs, c) ==
    LET holders == {d \in Calls : cs[d].op = "risc0_prove" /\ cs[d].input # NoInput}
    IN cs[CHOOSE d \in holders : \A e \in holders : d <= e].input

\* The input written to the local binding `env` of invocation c.
EnvInput(cs, c) == cs[c].input

\* prover.prove(env, ECDSA_VERIFY_ELF).map_err(ProveError)?
ProveBackend(c) ==
    /\ calls[c].op = "risc0_prove" /\ calls[c].pc = "prove"
    /\ \E fault \in BOOLEAN :
         LET p == ProverProve(EnvInput(calls, c), fault)
         IN Set(c, IF p.ok
                   THEN [calls[c] EXCEPT !.guest = p.guest, !.receipt = p.receipt,
                                         !.pc = "serialize"]
                   ELSE [calls[c] EXCEPT !.guest = p.guest,
                                         !.outcomes.fault = fault, !.pc = "done",
                                         !.result = Err("ProveError")])
    /\ UNCHANGED osrng

\* bincode::serialize(&receipt).map_err(SerializeError)?
ProveSerialize(c) ==
    /\ calls[c].op = "risc0_prove" /\ calls[c].pc = "serialize"
    /\ \E ok \in BOOLEAN :
         Set(c, IF ok
                THEN [calls[c] EXCEPT !.pc = "done",
                        !.result = OkProof(bincode_serialize(calls[c].receipt))]
                ELSE [calls[c] EXCEPT !.outcomes.serialize = FALSE, !.pc = "done",
                                      !.result = Err("SerializeError")])
    /\ UNCHANGED osrng

\* ------------------------------------- the CLI host's prove_ecdsa_verification
\* The key pair the CLI host's caller holds, and what it can pass: a verifying
\* key, any message bytes (valid UTF-8 or not) and any signature value.
HostKey == 0
HostMessages == {<<65>>, <<255>>}
HostSignatures == {Sign(HostKey, <<65>>, 0), Sign(HostKey, <<65>>, 1),
                   Sign(HostKey, <<255>>, 0)}
HostArgs == {a \in HostMessages \X HostSignatures :
               a[1] = <<65>> \/ a[2] = Sign(HostKey, <<255>>, 0)}

Call_prove_ecdsa_verification(c, message, signature) ==
    /\ CanStart(c)
    /\ Set(c, [calls[c] EXCEPT !.op = "prove_ecdsa_verification", !.pc = "env",
                 !.input = [pk |-> PubOf(HostKey), message |-> message,
                            signature |-> signature]])
    /\ UNCHANGED osrng

\* ExecutorEnv::builder().write(&input).unwrap().build().unwrap()
HostEnv(c) ==
    /\ calls[c].op = "prove_ecdsa_verification" /\ calls[c].pc = "env"
    /\ \E ok \in BOOLEAN :
         Set(c, IF ok
                THEN [calls[c] EXCEPT !.pc = "prove"]
                ELSE [calls[c] EXCEPT !.outcomes.env = FALSE, !.pc = "done",
                                      !.result = Err("panic")])
    /\ UNCHANGED osrng

\* prover.prove(env, ECDSA_VERIFY_ELF).unwrap().receipt
HostBackend(c) ==
    /\ calls[c].op = "prove_ecdsa_verification" /\ calls[c].pc = "prove"
    /\ \E fault \in BOOLEAN :
         LET p == ProverProve(calls[c].input, fault)
         IN Set(c, IF p.ok
                   THEN [calls[c] EXCEPT !.guest = p.guest, !.receipt = p.receipt,
                                         !.pc = "done",
                                         !.result = [NoResult EXCEPT !.kind = "Receipt"]]
                   ELSE [calls[c] EXCEPT !.guest = p.guest,
                                         !.outcomes.fault = fault, !.pc = "done",
                                         !.result = Err("panic")])
    /\ UNCHANGED osrng

\* ------------------------------------------------ the guest run on any input
\* env::read() can return any well-formed (EncodedPoint, Vec<u8>, Signature):
\* here also an encoding that is no point of the curve.
GuestInputs == {[pk |-> <<3, HostKey>>, message |-> <<65>>,
                 signature |-> Sign(HostKey, <<65>>, 0)],
                [pk |-> PubOf(HostKey), message |-> <<65, 255>>,
                 signature |-> Sign(HostKey, <<65, 255>>, 0)]}

Call_guest(c, input) ==
    /\ CanStart(c)
    /\ Set(c, [calls[c] EXCEPT !.op = "guest", !.pc = "prove", !.input = input])
    /\ UNCHANGED osrng

GuestBackend(c) ==
    /\ calls[c].op = "guest" /\ calls[c].pc = "prove"
    /\ \E fault \in BOOLEAN :
         LET p == ProverProve(calls[c].input, fault)
         IN Set(c, IF p.ok
                   THEN [calls[c] EXCEPT !.guest = p.guest, !.receipt = p.receipt,
                                         !.pc = "done",
                                         !.result = [NoResult EXCEPT !.kind = "Receipt"]]
                   ELSE [calls[c] EXCEPT !.guest = p.guest,
                                         !.outcomes.fault = fault, !.pc = "done",
                                         !.result = Err("Failed")])
    /\ UNCHANGED osrng

\* ------------------------------------------------- receipts a verifier is fed
\* The receipts that exist: those the backend has handed to a host.
Issued(cs) ==
    {cs[c].receipt : c \in {d \in Calls : cs[d].result.kind \in {"Ok", "Receipt"}
                                          /\ cs[d].op # "risc0_verify"}}

\* Journal bytes anyone can write down: a well-formed pair the guest never
\* committed, and bytes that are no pair at all.
ForeignJournals == {JournalEncode(PubOf(HostKey), <<66>>), <<9>>}

\* What can be made of the issued receipts without the backend: the receipt
\* itself, its seal corrupted, its journal altered or replaced (by a foreign
\* journal or by the journal of another receipt), a seal of a run of another
\* program, truncated bytes and the empty buffer.
Forged(cs) ==
    LET R == Issued(cs)
    IN ({[r EXCEPT !.seal[2] = 0] : r \in R}
       \cup {[journal |-> j, seal |-> r.seal] :
                r \in R, j \in ForeignJournals \cup {q.journal : q \in R}}
       \cup {[journal |-> r.journal, seal |-> Seal(ECDSA_VERIFY_ID + 1, r.journal)] :
                r \in R}) \ R

Feedable(cs) ==
    LET G == {bincode_serialize(r) : r \in Issued(cs)}
    IN G \cup {bincode_serialize(r) : r \in Forged(cs)}
         \cup {SubSeq(b, 1, Len(b) - 1) : b \in G} \cup {<<>>}

\* ------------------------------------------------------------ risc0_verify
\* The stages in the order the body runs them.
NextStageDecodeFirst(stage) ==
    CASE stage = "deserialize" -> "decode"
      [] stage = "decode" -> "seal"
      [] stage = "seal" -> "utf8"
      [] OTHER -> "done"

NextStage(stage) ==
    CASE stage = "deserialize" -> "seal"
      [] stage = "seal" -> "decode"
      [] stage = "decode" -> "utf8"
      [] OTHER -> "done"

\* A verifier that reports a failed seal check as Ok with is_valid false.
SealFailureSilent == [NoResult EXCEPT !.kind = "Ok"]

\* .map_err(VerifyError)? on receipt.verify
SealFailure == Err("VerifyError")

Call_risc0_verify(c, receipt_bytes) ==
    /\ CanStart(c)
    /\ Set(c, [calls[c] EXCEPT !.op = "risc0_verify", !.pc = "deserialize",
                               !.receipt_bytes = receipt_bytes])
    /\ UNCHANGED osrng

VerifyDeserialize(c) ==
    /\ calls[c].op = "risc0_verify" /\ calls[c].pc = "deserialize"
    /\ LET d == bincode_deserialize(calls[c].receipt_bytes)
           at == [calls[c] EXCEPT !.stages = Append(@, "deserialize")]
       IN Set(c, IF d.ok
                 THEN [at EXCEPT !.receipt = d.receipt,
                                 !.pc = NextStage("deserialize")]
                 ELSE [at EXCEPT !.pc = "done", !.result = Err("SerializeError")])
    /\ UNCHANGED osrng

VerifySeal(c) ==
    /\ calls[c].op = "risc0_verify" /\ calls[c].pc = "seal"
    /\ LET at == [calls[c] EXCEPT !.stages = Append(@, "seal")]
       IN Set(c, IF ReceiptVerify(calls[c].receipt, ECDSA_VERIFY_ID)
                 THEN [at EXCEPT !.pc = NextStage("seal")]
                 ELSE [at EXCEPT !.pc = "done", !.result = SealFailure])
    /\ UNCHANGED osrng

VerifyDecode(c) ==
    /\ calls[c].op = "risc0_verify" /\ calls[c].pc = "decode"
    /\ LET j == JournalDecode(calls[c].receipt.journal)
           at == [calls[c] EXCEPT !.stages = Append(@, "decode")]
       IN Set(c, IF j.ok
                 THEN [at EXCEPT !.decoded = [pk |-> j.pk, message |-> j.message],
                                 !.pc = NextStage("decode")]
                 ELSE [at EXCEPT !.pc = "done", !.result = Err("DecodeError")])
    /\ UNCHANGED osrng

VerifyUtf8(c) ==
    /\ calls[c].op = "risc0_verify" /\ calls[c].pc = "utf8"
    /\ LET u == from_utf8(calls[c].decoded.message)
           at == [calls[c] EXCEPT !.stages = Append(@, "utf8")]
       IN Set(c, IF u.ok
                 THEN [at EXCEPT !.pc = NextStage("utf8"), !.result = OkVerify(u.s)]
                 ELSE [at EXCEPT !.pc = "done", !.result = Err("DecodeError")])
    /\ UNCHANGED osrng

\* ------------------------------------------------------------ specification
Next ==
    \E c \in Calls :
       \/ \E m \in Strings : Call_risc0_prove(c, m)
       \/ ProveKeygen(c)
       \/ ProveSign(c)
       \/ ProveEnv(c)
       \/ ProveBackend(c)
       \/ ProveSerialize(c)
       \/ \E a \in HostArgs : Call_prove_ecdsa_verification(c, a[1], a[2])
       \/ HostEnv(c)
       \/ HostBackend(c)
       \/ \E i \in GuestInputs : Call_guest(c, i)
       \/ GuestBackend(c)
       \/ \E b \in Feedable(calls) : Call_risc0_verify(c, b)
       \/ VerifyDeserialize(c)
       \/ VerifySeal(c)
       \/ VerifyDecode(c)
       \/ VerifyUtf8(c)

Spec == Init /\ [][Next]_vars

\* ------------------------------------------- the operations as pure functions
\* risc0_verify on receipt_bytes, run alone.
risc0_verify(receipt_bytes) ==
    LET d == bincode_deserialize(receipt_bytes)
    IN IF ~d.ok THEN Err("SerializeError")
       ELSE IF ~ReceiptVerify(d.receipt, ECDSA_VERIFY_ID) THEN SealFailure
       ELSE LET j == JournalDecode(d.receipt.journal)
            IN IF ~j.ok THEN Err("DecodeError")
               ELSE LET u == from_utf8(j.message)
                    IN IF ~u.ok THEN Err("DecodeError") ELSE OkVerify(u.s)

\* risc0_prove on message, run alone with the key OsRng drew for it and the
\* outcomes oc of its collaborators.
risc0_prove(message, signing_key, oc) ==
    IF ~oc.sign THEN Err("panic")
    ELSE IF ~oc.env THEN Err("ProveError")
    ELSE LET bytes == as_bytes(message)
             p == ProverProve([pk |-> PubOf(signing_key), message |-> bytes,
                               signature |-> Sign(signing_key, bytes, 0)], oc.fault)
         IN IF ~p.ok THEN Err("ProveError")
            ELSE IF ~oc.serialize THEN Err("SerializeError")
            ELSE OkProof(bincode_serialize(p.receipt))

\* ------------------------------------------------------------------- claims
Provers == {"risc0_prove", "prove_ecdsa_verification", "guest"}
Done(c) == calls[c].pc = "done"
ProveOk(c) == calls[c].op = "risc0_prove" /\ calls[c].result.kind = "Ok"
VerifyDone(c) == calls[c].op = "risc0_verify" /\ Done(c)

\* The public key carried by the journal of serialized receipt b.
JournalKey(b) == JournalDecode(bincode_deserialize(b).receipt.journal).pk

\* Receipt r is the receipt the backend made for a run of the guest that
\* reached its end.
Genuine(r) ==
    \E c \in Calls : /\ calls[c].op \in Provers
                     /\ calls[c].guest.exit = "halted"
                     /\ r # NoReceipt
                     /\ calls[c].receipt = r

\* The message bytes the guest committed in the run that produced r.
CommittedMessage(r) ==
    calls[CHOOSE c \in Calls : calls[c].op \in Provers /\ calls[c].receipt = r]
        .input.message

\* C1: whenever risc0_prove(m) returns Ok with receipt bytes b, risc0_verify(b)
\* returns Ok with is_valid true and verified_message m, for the empty message
\* and for messages with multi-byte characters alike.
C1_RoundTrip ==
    \A c \in Calls :
       ProveOk(c) =>
          /\ risc0_verify(calls[c].result.receipt) = OkVerify(calls[c].message)
          /\ \A d \in Calls :
                VerifyDone(d) /\ calls[d].receipt_bytes = calls[c].result.receipt
                   => /\ calls[d].result.kind = "Ok"
                      /\ calls[d].result.is_valid
                      /\ calls[d].result.verified_message = calls[c].message

C1_Witness ==
    \E c, d \in Calls :
       /\ ProveOk(c) /\ calls[c].message = <<65, 233>>
       /\ VerifyDone(d) /\ calls[d].receipt_bytes = calls[c].result.receipt
       /\ calls[d].result.verified_message = <<65, 233>>

\* C2: the guest commits only after the signature check under the decoded key
\* has succeeded, at most once per run; when the key does not decode or the
\* signature does not verify the guest aborts with nothing committed and the
\* backend yields no receipt; and when the backend yields no receipt
\* risc0_prove returns ProveError.
C2_CommitAfterCheck ==
    \A c \in Calls :
       (calls[c].op \in Provers /\ calls[c].guest.exit # "none") =>
          LET i == calls[c].input
              good == ValidPoint(i.pk) /\ SigVerify(i.pk, i.message, i.signature)
          IN /\ Len(calls[c].guest.commits) <= 1
             /\ calls[c].guest.commits # <<>> => good /\ calls[c].guest.exit = "halted"
             /\ ~good => /\ calls[c].guest.exit = "aborted"
                         /\ calls[c].guest.commits = <<>>
                         /\ calls[c].receipt = NoReceipt
                         /\ calls[c].result.kind \notin {"Ok", "Receipt"}
             /\ (calls[c].op = "risc0_prove" /\ calls[c].receipt = NoReceipt)
                   => calls[c].result.kind = "ProveError"

C2_Witness ==
    /\ \E c \in Calls :
          /\ calls[c].guest.exit = "aborted"
          /\ ~SigVerify(calls[c].input.pk, calls[c].input.message,
                        calls[c].input.signature)
          /\ calls[c].receipt = NoReceipt
    /\ \E c \in Calls : calls[c].guest.exit = "halted" /\ calls[c].guest.commits # <<>>

\* C3 as stated: risc0_verify returns Ok if and only if the receipt was
\* produced by a run of the guest under ECDSA_VERIFY_ID that reached its end,
\* whatever message bytes the guest committed.
C3_OkIffGenuine ==
    \A d \in Calls :
       VerifyDone(d) =>
          LET ds == bincode_deserialize(calls[d].receipt_bytes)
          IN calls[d].result.kind = "Ok" <=> (ds.ok /\ Genuine(ds.receipt))

\* C3 as amended: the seal check of risc0_verify passes if and only if the
\* receipt was produced by a run of the guest under ECDSA_VERIFY_ID that
\* reached its end; risc0_verify returns Ok if and only if, in addition, the
\* committed message bytes are valid UTF-8, and returns DecodeError for such a
\* receipt whose message is not.
C3_SealIffGenuine ==
    \A d \in Calls :
       VerifyDone(d) =>
          LET ds == bincode_deserialize(calls[d].receipt_bytes)
              genuine == ds.ok /\ Genuine(ds.receipt)
              passed == calls[d].result.kind \in {"Ok", "DecodeError"}
          IN /\ passed <=> genuine
             /\ genuine =>
                  IF from_utf8(CommittedMessage(ds.receipt)).ok
                  THEN calls[d].result.kind = "Ok"
                  ELSE calls[d].result.kind = "DecodeError"

C3_Witness ==
    \E c, d \in Calls :
       /\ calls[c].op = "prove_ecdsa_verification" /\ calls[c].result.kind = "Receipt"
       /\ VerifyDone(d)
       /\ calls[d].receipt_bytes = bincode_serialize(calls[c].receipt)
       /\ calls[d].result.kind = "Ok"

VerifyOrder == <<"deserialize", "seal", "decode", "utf8">>

C5_StageOrder ==
    \A d \in Calls :
       calls[d].op = "risc0_verify" =>
          LET st == calls[d].stages
              ds == bincode_deserialize(calls[d].receipt_bytes)
              sealed == ds.ok /\ ReceiptVerify(ds.receipt, ECDSA_VERIFY_ID)
              j == JournalDecode(ds.receipt.journal)
              text == j.ok /\ from_utf8(j.message).ok
          IN /\ Len(st) <= 4 /\ st = SubSeq(VerifyOrder, 1, Len(st))
             /\ (Len(st) >= 3 \/ calls[d].decoded # NoDecoded
                   \/ calls[d].result.kind = "Ok") => sealed
             /\ Done(d) =>
                  /\ calls[d].result.kind =
                        IF ~ds.ok THEN "SerializeError"
                        ELSE IF ~sealed THEN "VerifyError"
                        ELSE IF ~text THEN "DecodeError"
                        ELSE "Ok"
                  /\ Len(st) = IF ~ds.ok THEN 1
                               ELSE IF ~sealed THEN 2
                               ELSE IF ~j.ok THEN 3
                               ELSE 4

C5_Witness ==
    \E d \in Calls :
       /\ VerifyDone(d) /\ calls[d].result.kind = "DecodeError"
       /\ calls[d].stages = VerifyOrder

\* C6 as stated: no operation ends in a panic; prove and verify return Ok or
\* one of the typed errors whatever their collaborators do.
Typed == {"Ok", "Receipt", "ProveError", "SerializeError", "VerifyError",
          "DecodeError"}

C6_NoPanic ==
    \A c \in Calls :
       (Done(c) /\ calls[c].op \in {"risc0_prove", "prove_ecdsa_verification",
                                    "risc0_verify"})
       => calls[c].result.kind \in Typed

\* C7: every risc0_prove call generates a signing identity no other call
\* used; two successful calls, also with the same message, return receipts
\* whose journals carry different public keys, and both receipts verify.
C7_FreshKeys ==
    \A c, d \in Calls :
       (c # d /\ calls[c].op = "risc0_prove" /\ calls[d].op = "risc0_prove") =>
          /\ (calls[c].signing_key # 0 /\ calls[d].signing_key # 0)
                => calls[c].signing_key # calls[d].signing_key
          /\ (ProveOk(c) /\ ProveOk(d)) =>
                /\ JournalKey(calls[c].result.receipt)
                      # JournalKey(calls[d].result.receipt)
                /\ JournalKey(calls[c].result.receipt) = PubOf(calls[c].signing_key)
                /\ risc0_verify(calls[c].result.receipt).kind = "Ok"
                /\ risc0_verify(calls[d].result.receipt).kind = "Ok"

C7_Witness ==
    \E c, d \in Calls :
       /\ c # d /\ ProveOk(c) /\ ProveOk(d)
       /\ calls[c].message = calls[d].message

\* C8: the journal is exactly the pair (compressed public key, message bytes)
\* of the guest's input; two runs whose inputs agree on key and message and
\* differ in the signature commit the same journal, and the output of
\* risc0_verify carries the message and nothing else of the input.
C8_JournalOnlyKeyAndMessage ==
    /\ \A c \in Calls :
          calls[c].guest.exit = "halted" =>
             /\ Flatten(calls[c].guest.commits)
                   = JournalEncode(calls[c].input.pk, calls[c].input.message)
             /\ calls[c].receipt # NoReceipt
                   => calls[c].receipt.journal = Flatten(calls[c].guest.commits)
    /\ \A c, d \in Calls :
          (/\ calls[c].guest.exit = "halted" /\ calls[d].guest.exit = "halted"
           /\ calls[c].receipt # NoReceipt /\ calls[d].receipt # NoReceipt
           /\ calls[c].input.pk = calls[d].input.pk
           /\ calls[c].input.message = calls[d].input.message)
          => calls[c].receipt.journal = calls[d].receipt.journal
    /\ \A d \in Calls :
          VerifyDone(d) => calls[d].result.receipt = <<>>

C8_Witness ==
    \E c, d \in Calls :
       /\ calls[c].guest.exit = "halted" /\ calls[d].guest.exit = "halted"
       /\ calls[c].input.pk = calls[d].input.pk
       /\ calls[c].input.message = calls[d].input.message
       /\ calls[c].input.signature # calls[d].input.signature
       /\ calls[c].receipt # NoReceipt
       /\ calls[c].receipt.journal = calls[d].receipt.journal

\* C9: verification is binary: a result of risc0_verify is an error or Ok
\* with is_valid true and the decoded message; never Ok with is_valid false.
C9_Binary ==
    \A d \in Calls :
       (calls[d].op = "risc0_verify" /\ calls[d].result.kind # "none") =>
          \/ /\ calls[d].result.kind = "Ok"
             /\ calls[d].result.is_valid
             /\ as_bytes(calls[d].result.verified_message) = calls[d].decoded.message
          \/ /\ calls[d].result.kind
                   \in {"SerializeError", "VerifyError", "DecodeError"}
             /\ ~calls[d].result.is_valid
             /\ calls[d].result.verified_message = <<>>

C9_Witness ==
    \E d \in Calls : /\ VerifyDone(d) /\ calls[d].result.kind = "Ok"
                     /\ calls[d].result.is_valid
                     /\ calls[d].result.verified_message # <<>>

\* C10: under every interleaving, the result of a call is the result the
\* operation gives when run alone on the same input with the same outcomes
\* of its collaborators.
C10_AsIfAlone ==
    \A c \in Calls :
       Done(c) =>
          /\ calls[c].op = "risc0_verify"
                => calls[c].result = risc0_verify(calls[c].receipt_bytes)
          /\ calls[c].op = "risc0_prove"
                => calls[c].result = risc0_prove(calls[c].message,
                                                 calls[c].signing_key,
                                                 calls[c].outcomes)

C10_Witness ==
    /\ MaxCalls >= 2
    /\ calls[1].op = "risc0_prove" /\ calls[1].pc = "serialize"
    /\ calls[2].op = "risc0_prove" /\ ProveOk(2)
    /\ calls[1].message # calls[2].message

====
